---- MODULE Spec2Model ----
(***************************************************************************)
(* Model of backend/main.py: a FastAPI service with four handlers          *)
(* (create_contact, get_contacts, update_contact, delete_contact) over one *)
(* MongoDB collection.  Each handler makes exactly one driver call on the  *)
(* shared collection and then maps the outcome of its try block to a       *)
(* response.  Requests of different clients interleave at the driver call. *)
(* Strings that the code inspects character by character (the path id) are *)
(* sequences of one-character strings.                                     *)
(***************************************************************************)
EXTENDS Integers, Sequences, FiniteSets, TLC

\* ---- bounds ----
MaxInserts == 2      \* documents ever inserted (caps the ObjectId counter)
MaxFailures == 1     \* driver calls that fail with a connection error

\* ObjectId is 12 bytes, written as 24 hexadecimal characters.
OidLen == 24

\* Requests in flight at the same time.
Clients == {"c1", "c2"}

VARIABLES
    collection,  \* db.contacts: the documents, in insertion order
    inc,         \* the driver's ObjectId counter
    failures,    \* driver calls that failed so far
    pc,          \* per client: "idle", or "responded" until the response is read
    req,         \* per client: the request handled
    res,         \* per client: the outcome of the handler's try block
    resp,        \* per client: the response to the request
    deleted,     \* ids whose delete was answered with success
    lastOp       \* the last driver call, when it was a successful insert_one

vars == <<collection, inc, failures, pc, req, res, resp, deleted, lastOp>>

\* ---- bson.ObjectId ----
HexLower == <<"0","1","2","3","4","5","6","7","8","9","a","b","c","d","e","f">>
HexUpper == <<"0","1","2","3","4","5","6","7","8","9","A","B","C","D","E","F">>

IsHexChar(c) == \E i \in 1..16 : HexLower[i] = c \/ HexUpper[i] = c

NibbleOf(c) == (CHOOSE i \in 1..16 : HexLower[i] = c \/ HexUpper[i] = c) - 1

\* ObjectId.is_valid on a str: 24 characters, all hexadecimal.
IsValidOid(s) == Len(s) = OidLen /\ \A i \in 1..Len(s) : IsHexChar(s[i])

\* ObjectId(contact_id): the 24 nibbles of the 12 bytes (bytes.fromhex);
\* the caller has to check IsValidOid first, otherwise InvalidId is raised.
ObjectId(s) == [i \in 1..OidLen |-> NibbleOf(s[i])]

\* str(ObjectId): lower-case hexadecimal.
OidToStr(oid) == [i \in 1..OidLen |-> HexLower[oid[i] + 1]]

RECURSIVE Nibbles(_, _)
Nibbles(n, len) ==
    IF len = 0 THEN <<>> ELSE Append(Nibbles(n \div 16, len - 1), n % 16)

\* A generator that hands out the same id again.
NewObjectIdReused(n) == Nibbles(1, OidLen)

\* ObjectId(): a fresh id built from the process-wide counter `inc`.
NewObjectId(n) == Nibbles(n, OidLen)

\* ---- Contact ----
Fields == {"name", "age", "mobile", "email"}

Ann == [name |-> "Ann", age |-> 30, mobile |-> "555-0100", email |-> "ann@x.com"]
Bob == [name |-> "Bob", age |-> 41, mobile |-> "555-0199", email |-> "bob@y.org"]

Payloads == {Ann, Bob}

\* contact.dict()
ContactDict(contact) == [f \in Fields |-> contact[f]]

\* response_model=List[Contact]: each returned document is reduced to the
\* fields the Contact model declares.
SerializeContact(doc) == [f \in Fields |-> doc[f]]

SerializeContacts(docs) == [i \in 1..Len(docs) |-> SerializeContact(docs[i])]

\* ---- the collection (pymongo) ----
Ids(coll) == {coll[i]._id : i \in 1..Len(coll)}

FirstIndex(coll, oid) ==
    CHOOSE i \in 1..Len(coll) :
        coll[i]._id = oid /\ \A j \in 1..(i - 1) : coll[j]._id # oid

\* insert_one: the driver adds the generated _id and the document is stored.
InsertOne(coll, oid, d) ==
    Append(coll, [f \in Fields \cup {"_id"} |-> IF f = "_id" THEN oid ELSE d[f]])

\* A $set that carries only part of the payload.
SetFieldsPartial(doc, upd) ==
    [f \in DOMAIN doc |-> IF f \in {"name", "age"} THEN upd[f] ELSE doc[f]]

\* The $set update operator: every field of upd overwrites the document's.
SetFields(doc, upd) ==
    [f \in DOMAIN doc |-> IF f \in DOMAIN upd THEN upd[f] ELSE doc[f]]

MatchedCount(coll, oid) == IF oid \in Ids(coll) THEN 1 ELSE 0

\* update_one with upsert=True: an unmatched filter inserts the document.
UpdateOneUpsert(coll, oid, upd) ==
    IF oid \in Ids(coll)
    THEN [coll EXCEPT ![FirstIndex(coll, oid)] = SetFields(@, upd)]
    ELSE Append(coll, [f \in Fields \cup {"_id"} |-> IF f = "_id" THEN oid ELSE upd[f]])

\* update_one({"_id": oid}, {"$set": upd}), no upsert.
UpdateOne(coll, oid, upd) ==
    IF oid \in Ids(coll)
    THEN [coll EXCEPT ![FirstIndex(coll, oid)] = SetFields(@, upd)]
    ELSE coll

\* delete_one with a filter that matches every document when the id matches
\* none.
DeleteOneUnfiltered(coll, oid) ==
    IF coll = <<>> THEN coll
    ELSE LET k == IF oid \in Ids(coll) THEN FirstIndex(coll, oid) ELSE 1
         IN  [i \in 1..(Len(coll) - 1) |-> IF i < k THEN coll[i] ELSE coll[i + 1]]

\* delete_one({"_id": oid})
DeleteOne(coll, oid) ==
    IF oid \in Ids(coll)
    THEN LET k == FirstIndex(coll, oid)
         IN  [i \in 1..(Len(coll) - 1) |-> IF i < k THEN coll[i] ELSE coll[i + 1]]
    ELSE coll

\* list(collection.find())
FindAll(coll) == coll

\* ---- handlers: outcome of the try block ----
NoOid == <<>>

\* What the try block of a handler produced: the exception it raised ("" when
\* it returned), the status of a raised HTTPException, the id insert_one
\* returned, the documents find returned, and the driver calls issued.
Returned(oid, docs) ==
    [exc |-> "", status |-> 0, detail |-> "", oid |-> oid, contacts |-> docs, calls |-> 1]

Raised(exc, status, detail) ==
    [exc |-> exc, status |-> status, detail |-> detail, oid |-> NoOid, contacts |-> <<>>,
     calls |-> IF exc = "InvalidId" THEN 0 ELSE 1]

\* The classes `except Exception` catches: bson.errors.InvalidId,
\* pymongo.errors.PyMongoError and fastapi.HTTPException all derive from
\* Exception.
ExceptionSubclasses == {"InvalidId", "PyMongoError", "HTTPException"}

CaughtByExceptException(exc) == exc \in ExceptionSubclasses

\* An HTTP response: status, detail of an error, message and id of a success
\* body, items of a list body.
Http(status, detail) ==
    [status |-> status, detail |-> detail, message |-> "", id |-> <<>>, items |-> <<>>]

Ok(message, id, items) ==
    [status |-> 200, detail |-> "", message |-> message, id |-> id, items |-> items]

NoResp == Http(0, "")

NoRes == [Returned(NoOid, <<>>) EXCEPT !.calls = 0]

NoReq == [op |-> "none", id |-> <<>>]

NoOp == [oid |-> NoOid, contact |-> Ann, size |-> 0]

\* An except clause that puts the cause in the detail (detail=str(e)).
ExceptClauseLeaksCause(r, detail) == Http(500, r.exc)

\* A try block that raised: the except clause of the handler, or, for an
\* exception it does not catch, the framework's rendering of an HTTPException.
ExceptClause(r, detail) ==
    IF CaughtByExceptException(r.exc) THEN Http(500, detail) ELSE Http(r.status, r.detail)

\* create_contact, lines 58-61
CreateResponse(r) ==
    IF r.exc = ""
    THEN Ok("Contact created successfully", OidToStr(r.oid), <<>>)
    ELSE ExceptClause(r, "Error creating contact")

\* get_contacts, lines 69-72
ListResponse(r) ==
    IF r.exc = ""
    THEN Ok("", <<>>, SerializeContacts(r.contacts))
    ELSE ExceptClause(r, "Error retrieving contacts")

\* update_contact, lines 83-86
UpdateResponse(r) ==
    IF r.exc = ""
    THEN Ok("Contact updated successfully", <<>>, <<>>)
    ELSE ExceptClause(r, "Error updating contact")

\* delete_contact, lines 96-99
DeleteResponse(r) ==
    IF r.exc = ""
    THEN Ok("Contact deleted successfully", <<>>, <<>>)
    ELSE ExceptClause(r, "Error deleting contact")

\* ---- inputs ----
TooShortId == <<"a", "b", "c">>

NotHexId == [i \in 1..OidLen |-> IF i = 1 THEN "g" ELSE "0"]

\* Path ids: the string of every id the driver can generate (matching no
\* document before its insertion and after its deletion), and two strings
\* that are no ObjectId.
IdInputs ==
    {OidToStr(NewObjectId(n)) : n \in 1..MaxInserts} \cup {TooShortId, NotHexId}

\* A driver call succeeds, fails before the server applied it, or fails after
\* (the acknowledgement is lost).
FailModes == IF failures < MaxFailures THEN {"none", "before", "after"} ELSE {"none"}

Failed(fail) == IF fail = "none" THEN 0 ELSE 1

\* ---- handlers: the try block up to and including its driver call ----
\* Each gives the collection after the call and the outcome of the try block.
Outcome(coll, r) == [coll |-> coll, res |-> r]

ConnectionFailure == Raised("PyMongoError", 0, "")

\* The unique index on _id rejects a second document with the same _id.
DuplicateKeyError == Raised("PyMongoError", 0, "")

\* create_contact, lines 55-58
CreateTry(coll, n, contact, fail) ==
    LET oid == NewObjectId(n)
        new == InsertOne(coll, oid, ContactDict(contact))
    IN  IF fail = "before" THEN Outcome(coll, ConnectionFailure)
        ELSE IF oid \in Ids(coll) THEN Outcome(coll, DuplicateKeyError)
        ELSE IF fail = "none" THEN Outcome(new, Returned(oid, <<>>))
        ELSE Outcome(new, ConnectionFailure)

\* get_contacts, lines 67-69
ListTry(coll, fail) ==
    IF fail = "none" THEN Outcome(coll, Returned(NoOid, FindAll(coll)))
    ELSE Outcome(coll, ConnectionFailure)

\* update_contact filtering on the path string itself, without ObjectId().
UpdateTryStrFilter(coll, id, contact, fail) ==
    IF fail = "none"
    THEN Outcome(coll, Raised("HTTPException", 404, "Contact not found"))
    ELSE Outcome(coll, ConnectionFailure)

\* update_contact, lines 78-83
UpdateTry(coll, id, contact, fail) ==
    IF ~IsValidOid(id) THEN Outcome(coll, Raised("InvalidId", 0, ""))
    ELSE LET oid == ObjectId(id)
             new == UpdateOne(coll, oid, ContactDict(contact))
         IN  IF fail = "before" THEN Outcome(coll, ConnectionFailure)
             ELSE IF fail = "after" THEN Outcome(new, ConnectionFailure)
             ELSE IF MatchedCount(coll, oid) = 0
                  THEN Outcome(new, Raised("HTTPException", 404, "Contact not found"))
                  ELSE Outcome(new, Returned(NoOid, <<>>))

\* delete_contact, lines 92-96
DeleteTry(coll, id, fail) ==
    IF ~IsValidOid(id) THEN Outcome(coll, Raised("InvalidId", 0, ""))
    ELSE LET oid == ObjectId(id)
             new == DeleteOne(coll, oid)
         IN  IF fail = "before" THEN Outcome(coll, ConnectionFailure)
             ELSE IF fail = "after" THEN Outcome(new, ConnectionFailure)
             ELSE IF Len(coll) - Len(new) = 0
                  THEN Outcome(new, Raised("HTTPException", 404, "Contact not found"))
                  ELSE Outcome(new, Returned(NoOid, <<>>))

\* ---- state machine ----
Init ==
    /\ collection = <<>>
    /\ inc = 1
    /\ failures = 0
    /\ pc = [p \in Clients |-> "idle"]
    /\ req = [p \in Clients |-> NoReq]
    /\ res = [p \in Clients |-> NoRes]
    /\ resp = [p \in Clients |-> NoResp]
    /\ deleted = {}
    /\ lastOp = NoOp


\* A handler runs from the arrival of the request to its return or raise:
\* the try block with its one driver call, then the response.
Handle(p, op, id, out, fail, response) ==
    /\ pc[p] = "idle"
    /\ pc' = [pc EXCEPT ![p] = "responded"]
    /\ req' = [req EXCEPT ![p] = [op |-> op, id |-> id]]
    /\ collection' = out.coll
    /\ res' = [res EXCEPT ![p] = out.res]
    /\ resp' = [resp EXCEPT ![p] = response]
    /\ failures' = failures + (IF out.res.calls = 0 THEN 0 ELSE Failed(fail))
    /\ UNCHANGED deleted

create_contact(p) ==
    \E contact \in Payloads, fail \in FailModes :
        LET out == CreateTry(collection, inc, contact, fail)
        IN  /\ inc <= MaxInserts
            /\ Handle(p, "create", <<>>, out, fail, CreateResponse(out.res))
            /\ inc' = inc + 1
            /\ lastOp' = IF out.res.exc = ""
                         THEN [oid |-> NewObjectId(inc), contact |-> contact,
                               size |-> Len(collection)]
                         ELSE NoOp

get_contacts(p) ==
    \E fail \in FailModes :
        LET out == ListTry(collection, fail)
        IN  /\ Handle(p, "list", <<>>, out, fail, ListResponse(out.res))
            /\ lastOp' = NoOp
            /\ UNCHANGED inc

update_contact(p) ==
    \E id \in IdInputs, contact \in Payloads, fail \in FailModes :
        LET out == UpdateTry(collection, id, contact, fail)
        IN  /\ Handle(p, "update", id, out, fail, UpdateResponse(out.res))
            /\ lastOp' = IF out.res.calls = 0 THEN lastOp ELSE NoOp
            /\ UNCHANGED inc

delete_contact(p) ==
    \E id \in IdInputs, fail \in FailModes :
        LET out == DeleteTry(collection, id, fail)
        IN  /\ Handle(p, "delete", id, out, fail, DeleteResponse(out.res))
            /\ lastOp' = IF out.res.calls = 0 THEN lastOp ELSE NoOp
            /\ UNCHANGED inc

\* The client receives the response; its connection takes the next request.
Receive(p) ==
    /\ pc[p] = "responded"
    /\ pc' = [pc EXCEPT ![p] = "idle"]
    /\ req' = [req EXCEPT ![p] = NoReq]
    /\ res' = [res EXCEPT ![p] = NoRes]
    /\ resp' = [resp EXCEPT ![p] = NoResp]
    /\ deleted' = IF req[p].op = "delete" /\ resp[p].status = 200
                  THEN deleted \cup {ObjectId(req[p].id)}
                  ELSE deleted
    /\ UNCHANGED <<collection, inc, failures, lastOp>>

Next ==
    \E p \in Clients :
        \/ create_contact(p)
        \/ get_contacts(p)
        \/ update_contact(p)
        \/ delete_contact(p)
        \/ Receive(p)

Spec == Init /\ [][Next]_vars

\* ---- properties ----
Responded(p, op) == pc[p] = "responded" /\ req[p].op = op

\* The step in which the handler of op runs for client p.
StepOf(p, op) == pc[p] = "idle" /\ pc'[p] = "responded" /\ req'[p].op = op

PayloadDicts == {ContactDict(c) : c \in Payloads}

IdSeq(coll) == [i \in 1..Len(coll) |-> coll[i]._id]

Without(coll, oid) == SelectSeq(coll, LAMBDA d : d._id # oid)

Generated == {NewObjectId(n) : n \in 1..(inc - 1)}

\* C1: an update addressed to a well-formed id that matches no document
\* (update_one reported matched_count 0) is answered 404 "Contact not found".
C1_UpdateUnmatchedIs404 ==
    \A p \in Clients :
        (/\ Responded(p, "update")
         /\ IsValidOid(req[p].id)
         /\ res[p].exc = "HTTPException")
        => resp[p].status = 404 /\ resp[p].detail = "Contact not found"

\* C2: a delete addressed to a well-formed id that matches no document
\* (delete_one reported deleted_count 0) is answered 404 "Contact not found".
C2_DeleteUnmatchedIs404 ==
    \A p \in Clients :
        (/\ Responded(p, "delete")
         /\ IsValidOid(req[p].id)
         /\ res[p].exc = "HTTPException")
        => resp[p].status = 404 /\ resp[p].detail = "Contact not found"

\* C3: a successful list returns every document find returned, each with its
\* id as a string next to name, age, mobile and email.
C3_ListCarriesIds ==
    \A p \in Clients :
        (Responded(p, "list") /\ resp[p].status = 200)
        => /\ Len(resp[p].items) = Len(res[p].contacts)
           /\ \A i \in 1..Len(resp[p].items) :
                  /\ "id" \in DOMAIN resp[p].items[i]
                  /\ resp[p].items[i].id = OidToStr(res[p].contacts[i]._id)
                  /\ \A f \in Fields : resp[p].items[i][f] = res[p].contacts[i][f]

\* C4: a successful create answers with a non-empty id and the message
\* "Contact created successfully"; a list that is the next driver call after
\* it returns exactly one contact with that id, carrying the submitted values,
\* and one contact more than the collection held before the create.
C4_CreateThenList ==
    /\ [](\A p \in Clients :
            (Responded(p, "create") /\ resp[p].status = 200)
            => /\ Len(resp[p].id) > 0
               /\ resp[p].message = "Contact created successfully")
    /\ [][\A p \in Clients :
            (StepOf(p, "list") /\ resp'[p].status = 200 /\ lastOp.oid # NoOid)
            => LET items == resp'[p].items
               IN  /\ Len(items) = lastOp.size + 1
                   /\ Cardinality({i \in 1..Len(items) :
                         /\ "id" \in DOMAIN items[i]
                         /\ items[i].id = OidToStr(lastOp.oid)
                         /\ \A f \in Fields : items[i][f] = lastOp.contact[f]}) = 1]_vars

\* C5: once a delete was answered with success, the collection never holds a
\* document with that id again and no later find returns one; a delete leaves
\* every document with another id as it was.
C5_DeletedStaysDeleted ==
    /\ [](\A oid \in deleted : oid \notin Ids(collection))
    /\ [][\A p \in Clients :
            StepOf(p, "list")
            => \A i \in 1..Len(res'[p].contacts) : res'[p].contacts[i]._id \notin deleted]_vars
    /\ [][\A p \in Clients :
            (StepOf(p, "delete") /\ IsValidOid(req'[p].id))
            => /\ Without(collection', ObjectId(req'[p].id))
                  = Without(collection, ObjectId(req'[p].id))
               /\ (resp'[p].status = 200
                   => ObjectId(req'[p].id) \notin Ids(collection'))]_vars

C5_Witness ==
    /\ deleted # {}
    /\ \A p \in Clients :
          Responded(p, "list") /\ resp[p].status = 200 /\ Len(res[p].contacts) > 0

\* C6: every document in the collection, in a find result and in a list
\* response carries the four values of one single payload, never a mixture of
\* two; an update keeps the ids of all documents and changes no document but
\* the one addressed.
C6_UpdateReplacesAllFieldsTogether ==
    /\ [](/\ \A i \in 1..Len(collection) : ContactDict(collection[i]) \in PayloadDicts
          /\ \A p \in Clients :
                /\ \A i \in 1..Len(res[p].contacts) :
                       ContactDict(res[p].contacts[i]) \in PayloadDicts
                /\ \A i \in 1..Len(resp[p].items) : resp[p].items[i] \in PayloadDicts)
    /\ [][\A p \in Clients :
            StepOf(p, "update")
            => /\ IdSeq(collection') = IdSeq(collection)
               /\ \A i \in 1..Len(collection) :
                      (IsValidOid(req'[p].id) => collection[i]._id # ObjectId(req'[p].id))
                      => collection'[i] = collection[i]]_vars

C6_Witness ==
    \E p, q \in Clients :
        /\ Responded(p, "update") /\ resp[p].status = 200
        /\ Responded(q, "list") /\ resp[q].status = 200
        /\ \E i \in 1..Len(res[q].contacts) :
               /\ res[q].contacts[i]._id = ObjectId(req[p].id)
               /\ \E j \in 1..Len(collection) :
                      /\ collection[j]._id = ObjectId(req[p].id)
                      /\ collection[j] # res[q].contacts[i]

\* C7: an update or a delete addressed to a well-formed id that matches no
\* document leaves the collection as it was.
C7_UnmatchedLeavesCollection ==
    [][\A p \in Clients :
        (/\ StepOf(p, "update") \/ StepOf(p, "delete")
         /\ IsValidOid(req'[p].id)
         /\ ObjectId(req'[p].id) \notin Ids(collection))
        => collection' = collection]_vars

C7_Witness ==
    \E p, q \in Clients :
        /\ Responded(p, "update") /\ IsValidOid(req[p].id) /\ res[p].exc = "HTTPException"
        /\ Responded(q, "delete") /\ IsValidOid(req[q].id) /\ res[q].exc = "HTTPException"
        /\ Len(collection) > 0

\* C8: an update or a delete addressed to an id that is no ObjectId is
\* answered 500 with the handler's fixed detail, issues no driver call and
\* leaves the collection as it was.
C8_MalformedIdIs500 ==
    /\ [](\A p \in Clients :
            /\ (Responded(p, "update") /\ ~IsValidOid(req[p].id))
               => /\ resp[p].status = 500
                  /\ resp[p].detail = "Error updating contact"
                  /\ res[p].calls = 0
            /\ (Responded(p, "delete") /\ ~IsValidOid(req[p].id))
               => /\ resp[p].status = 500
                  /\ resp[p].detail = "Error deleting contact"
                  /\ res[p].calls = 0)
    /\ [][\A p \in Clients :
            (/\ StepOf(p, "update") \/ StepOf(p, "delete")
             /\ ~IsValidOid(req'[p].id))
            => collection' = collection]_vars

C8_Witness ==
    \E p, q \in Clients :
        /\ Responded(p, "update") /\ req[p].id = NotHexId
        /\ Responded(q, "delete") /\ req[q].id = TooShortId
        /\ Len(collection) > 0

\* C9: the ids of the documents in the collection are pairwise distinct, each
\* was generated by the driver, a document enters the collection only in a
\* create and with the id generated in that step, and an update changes no
\* document's id.
C9_IdsUniqueAssignedImmutable ==
    /\ [](/\ \A i, j \in 1..Len(collection) :
                 i # j => collection[i]._id # collection[j]._id
          /\ Ids(collection) \subseteq Generated)
    /\ [][\A p \in Clients :
            /\ StepOf(p, "update") => IdSeq(collection') = IdSeq(collection)
            /\ (pc[p] = "idle" /\ pc'[p] = "responded")
               => \A oid \in Ids(collection') \ Ids(collection) :
                      req'[p].op = "create" /\ oid = NewObjectId(inc)]_vars

C9_Witness ==
    /\ Len(collection) >= 2
    /\ \E p \in Clients : Responded(p, "update") /\ resp[p].status = 200

\* The detail each handler puts in its 500 response.
FixedDetail(op) ==
    CASE op = "create" -> "Error creating contact"
      [] op = "list" -> "Error retrieving contacts"
      [] op = "update" -> "Error updating contact"
      [] op = "delete" -> "Error deleting contact"
      [] OTHER -> ""

\* collection' is coll with one document appended, removed or changed.
OneDocumentOperation(coll, new) ==
    \/ new = coll
    \/ Len(new) = Len(coll) + 1 /\ SubSeq(new, 1, Len(coll)) = coll
    \/ Len(new) = Len(coll) - 1 /\ \E oid \in Ids(coll) : new = Without(coll, oid)
    \/ /\ Len(new) = Len(coll)
       /\ Cardinality({i \in 1..Len(coll) : new[i] # coll[i]}) = 1

\* C10: a handler whose driver call fails answers 500 with its fixed detail
\* after that one call (no retry), and every handler changes the collection
\* by at most one document operation.
C10_StorageFailureIs500 ==
    /\ [](\A p \in Clients :
            (pc[p] = "responded" /\ res[p].exc = "PyMongoError")
            => /\ resp[p].status = 500
               /\ resp[p].detail = FixedDetail(req[p].op)
               /\ res[p].calls = 1)
    /\ [][OneDocumentOperation(collection, collection')]_vars

C10_Witness ==
    \E p \in Clients :
        /\ pc[p] = "responded" /\ res[p].exc = "PyMongoError" /\ req[p].op = "create"
        /\ \E i \in 1..Len(collection) : collection[i]._id = NewObjectId(inc - 1)

====
